---- MODULE Spec2Model ----
(***************************************************************************)
(* ia-stream: the Stream contract (StreamBase, Substream) and its backends *)
(* (MemoryStream, FileStream, NodeStream) as a state machine.               *)
(*                                                                          *)
(* One backend is constructed in Init; every public operation of every     *)
(* live stream is one action.  Each handler is an operator from the world  *)
(* (all objects) to a result  [w, err, ok, cnt, data]:  the world after    *)
(* the call, the Error thrown ("none" when the call returned), and the     *)
(* returned boolean / number / Buffer.                                     *)
(***************************************************************************)
EXTENDS Integers, Sequences, FiniteSets, TLC

\* ------------------------------------------------------------ bounds
\* Longest disk file / memory buffer the operations may produce.
MaxLen == 4
\* Most streams obtained through substream(...).
MaxSubs == 2
\* Most calls in one run.
MaxOps == 3

\* ------------------------------------------------------------ helpers
Min(a, b) == IF a < b THEN a ELSE b

Max(a, b) == IF a > b THEN a ELSE b

\* number | null, number | undefined: <<>> is null/undefined, <<v>> is v.
Null == <<>>

Some(v) == <<v>>

\* JavaScript  x || d  on an optional number: null, undefined and 0 are falsy.
OrElse(x, d) == IF x = Null THEN d ELSE IF x[1] = 0 THEN d ELSE x[1]

\* JavaScript  x || null.
OrNull(x) == IF x = Null THEN Null ELSE IF x[1] = 0 THEN Null ELSE x

\* Buffer.alloc(n): n zero bytes.
BufferAlloc(n) == [i \in 1..n |-> 0]

\* The bytes the backend under test starts with: offset i holds i + 1.
InitData == <<1, 2, 3>>

\* The buffers handed to write.
WriteData == {<<9>>, <<8, 9>>}

\* Stream identities.
FileId == <<"file", 0>>

NodeId == <<"node", 0>>

MemId(i) == <<"mem", i>>

SubId(j) == <<"sub", j>>

\* ------------------------------------------------------------ results
Ret(w) == [w |-> w, err |-> "none", ok |-> FALSE, cnt |-> 0, data |-> <<>>]

Throw(w, e) == [Ret(w) EXCEPT !.err = e]

RetBool(w, b) == [Ret(w) EXCEPT !.ok = b]

RetNum(w, n) == [Ret(w) EXCEPT !.cnt = n]

RetBuf(w, d) == [Ret(w) EXCEPT !.data = d, !.cnt = Len(d)]

\* ------------------------------------------------------------ file system
\* fs.FileHandle.read(buf, 0, n, pos) into a fresh Buffer.alloc(n).
Pread(disk, pos, n) ==
    LET got == Max(0, Min(n, Len(disk) - pos))
    IN  [bytesRead |-> got,
         buf |-> SubSeq(disk, pos + 1, pos + got) \o BufferAlloc(n - got)]

\* fs.FileHandle.write(data, 0, data.length, pos); a hole reads as zeros.
Pwrite(disk, pos, data) ==
    IF Len(data) = 0 THEN disk
    ELSE [i \in 1..Max(Len(disk), pos + Len(data)) |->
            IF i > pos /\ i <= pos + Len(data) THEN data[i - pos]
            ELSE IF i <= Len(disk) THEN disk[i] ELSE 0]

\* fs.FileHandle.truncate(len).
Truncate(disk, len) ==
    [i \in 1..len |-> IF i <= Len(disk) THEN disk[i] ELSE 0]

\* ------------------------------------------------------------ FileStream
FileStream_isOpen(f) == f._file # "null"

FileStream_length(f) == f._range[2] - f._range[1]

FileStream_position(f) == f._position - f._range[1]

FileStream_canRead(f) ==
    IF ~FileStream_isOpen(f) THEN FALSE
    ELSE "r" \in f._flags \/ ("w" \in f._flags /\ "+" \in f._flags)

FileStream_canSeek(f) ==
    IF ~FileStream_isOpen(f) THEN FALSE
    ELSE "r" \in f._flags \/ "w" \in f._flags

FileStream_canWrite(f) ==
    IF ~FileStream_isOpen(f) THEN FALSE
    ELSE IF f._isSubstream THEN FALSE
    ELSE "w" \in f._flags \/ "a" \in f._flags
         \/ ("r" \in f._flags /\ "+" \in f._flags)

\* FileStream.open: the handle, the range [0, stats.size], the cursor at 0.
\* Opening with "w" truncates the file.
FileStream_open(disk, flags) ==
    LET d == IF "w" \in flags THEN <<>> ELSE disk
    IN  [_file |-> "fd", _position |-> 0, _range |-> <<0, Len(d)>>,
         _flags |-> flags, _isSubstream |-> FALSE, disk |-> d]

FileStream_seek(w, position) ==
    LET f == w.file
    IN  IF ~FileStream_isOpen(f) THEN Throw(w, "NotOpen")
        ELSE IF ~FileStream_canSeek(f) THEN Throw(w, "Unsupported")
        ELSE IF position < 0 \/ position > FileStream_length(f)
             THEN RetBool(w, FALSE)
        ELSE RetBool([w EXCEPT !.file._position = position + f._range[1]], TRUE)

FileStream_read(w, length, exact) ==
    LET f == w.file
        r == Pread(f.disk, f._position, length)
    IN  IF ~FileStream_isOpen(f) THEN Throw(w, "NotOpen")
        ELSE IF ~FileStream_canRead(f) THEN Throw(w, "Unsupported")
        ELSE IF exact /\ FileStream_position(f) + length > FileStream_length(f)
             THEN Throw(w, "ShortRead")
        ELSE IF exact /\ r.bytesRead # length THEN Throw(w, "ShortRead")
        ELSE [RetBuf([w EXCEPT !.file._position = @ + r.bytesRead], r.buf)
                EXCEPT !.cnt = r.bytesRead]

\* FileStream.read up to its await: the checks, and the offset handed to
\* this._file.read, which is this._position at that moment.
FileStream_read_issue(f, length, exact) ==
    IF ~FileStream_isOpen(f) THEN [err |-> "NotOpen", at |-> 0]
    ELSE IF ~FileStream_canRead(f) THEN [err |-> "Unsupported", at |-> 0]
    ELSE IF exact /\ FileStream_position(f) + length > FileStream_length(f)
         THEN [err |-> "ShortRead", at |-> 0]
    ELSE [err |-> "none", at |-> f._position]

\* FileStream.read after its await: the bytes read at the offset handed over,
\* and this._position += bytesRead on the cursor as it is by then.
FileStream_read_done(w, at, length, exact) ==
    LET r == Pread(w.file.disk, at, length)
    IN  IF exact /\ r.bytesRead # length THEN Throw(w, "ShortRead")
        ELSE [RetBuf([w EXCEPT !.file._position = @ + r.bytesRead], r.buf)
                EXCEPT !.cnt = r.bytesRead]

\* FileStream.write up to its await.
FileStream_write_issue(f) ==
    IF ~FileStream_isOpen(f) THEN [err |-> "NotOpen", at |-> 0]
    ELSE IF ~FileStream_canWrite(f) THEN [err |-> "Unsupported", at |-> 0]
    ELSE [err |-> "none",
          at |-> IF "a" \in f._flags THEN Len(f.disk) ELSE f._position]

\* FileStream.write after its await.
FileStream_write_done(w, at, data) ==
    LET pos == w.file._position + Len(data)
    IN  RetNum([w EXCEPT !.file.disk = Pwrite(w.file.disk, at, data),
                         !.file._position = pos,
                         !.file._range = <<w.file._range[1],
                                           Max(pos, w.file._range[2])>>],
               Len(data))

\* FileStream.write with the range's end left where it was.
FileStream_write_noGrow(w, data) ==
    LET f == w.file
        at == IF "a" \in f._flags THEN Len(f.disk) ELSE f._position
        pos == f._position + Len(data)
    IN  IF ~FileStream_isOpen(f) THEN Throw(w, "NotOpen")
        ELSE IF ~FileStream_canWrite(f) THEN Throw(w, "Unsupported")
        ELSE RetNum([w EXCEPT !.file.disk = Pwrite(f.disk, at, data),
                              !.file._position = pos],
                    Len(data))

\* With O_APPEND the kernel ignores the offset and appends.
FileStream_write(w, data) ==
    LET f == w.file
        at == IF "a" \in f._flags THEN Len(f.disk) ELSE f._position
        pos == f._position + Len(data)
    IN  IF ~FileStream_isOpen(f) THEN Throw(w, "NotOpen")
        ELSE IF ~FileStream_canWrite(f) THEN Throw(w, "Unsupported")
        ELSE RetNum([w EXCEPT !.file.disk = Pwrite(f.disk, at, data),
                              !.file._position = pos,
                              !.file._range = <<f._range[1], Max(pos, f._range[2])>>],
                    Len(data))

FileStream_resize(w, length) ==
    LET f == w.file
    IN  IF ~FileStream_isOpen(f) THEN Throw(w, "NotOpen")
        ELSE IF ~FileStream_canWrite(f) THEN Throw(w, "Unsupported")
        ELSE IF length = FileStream_length(f) THEN RetBool(w, TRUE)
        ELSE RetBool([w EXCEPT !.file.disk = Truncate(f.disk, length)], TRUE)

\* StreamBase.close: emit("close") runs every listener registered on the
\* stream, i.e. the close() of every Substream constructed over it.
StreamBase_close(w, id) ==
    Ret([w EXCEPT !.subs = [j \in 1..Len(w.subs) |->
            IF w.subs[j]._source = id
            THEN [w.subs[j] EXCEPT !._isOpen = FALSE]
            ELSE w.subs[j]]])

FileStream_close(w) ==
    StreamBase_close(
        IF w.file._file # "null" THEN [w EXCEPT !.file._file = "null"] ELSE w,
        FileId)

\* ------------------------------------------------------------ MemoryStream
\* A Buffer is a view [store, off, len] of an allocation in the heap;
\* Buffer.slice makes another view of the same allocation.
BufferBytes(w, b) == SubSeq(w.heap[b.store], b.off + 1, b.off + b.len)

\* Buffer.slice index: negative counts from the end, then clamped.
SliceIndex(i, len) == IF i < 0 THEN Max(len + i, 0) ELSE Min(i, len)

\* Buffer.slice(start, end); end undefined means the buffer's length.
BufferSlice(b, start, end) ==
    LET s == SliceIndex(start, b.len)
        e == IF end = Null THEN b.len ELSE SliceIndex(end[1], b.len)
    IN  [store |-> b.store, off |-> b.off + s, len |-> Max(e - s, 0)]

\* new MemoryStream({ data, readonly, fixedSize })
MemoryStream_new(buf, readonly, fixedSize) ==
    [_buffer |-> Some(buf), _position |-> 0, _fixedSize |-> fixedSize,
     _isOpen |-> TRUE, _isReadOnly |-> readonly]

MemoryStream_length(m) == m._buffer[1].len

MemoryStream_canRead(m) == m._isOpen

MemoryStream_canSeek(m) == MemoryStream_canRead(m)

\* MemoryStream.canWrite without the read-only flag.
MemoryStream_canWrite_open(m) == m._isOpen

MemoryStream_canWrite(m) == m._isOpen /\ ~m._isReadOnly

\* MemoryStream.seek with the cursor assigned before the range is checked.
MemoryStream_seek_assignFirst(w, i, position) ==
    LET m == w.mems[i]
        moved == [w EXCEPT !.mems[i]._position = position]
    IN  IF ~m._isOpen THEN Throw(w, "NotOpen")
        ELSE IF position < 0 \/ position >= MemoryStream_length(m)
             THEN RetBool(moved, FALSE)
        ELSE RetBool(moved, TRUE)

MemoryStream_seek(w, i, position) ==
    LET m == w.mems[i]
    IN  IF ~m._isOpen THEN Throw(w, "NotOpen")
        ELSE IF position < 0 \/ position >= MemoryStream_length(m)
             THEN RetBool(w, FALSE)
        ELSE RetBool([w EXCEPT !.mems[i]._position = position], TRUE)

MemoryStream_read(w, i, length, exact) ==
    LET m == w.mems[i]
        len == MemoryStream_length(m)
        slice == BufferSlice(m._buffer[1], m._position,
                             Some(Min(len, m._position + length)))
    IN  IF ~m._isOpen THEN Throw(w, "NotOpen")
        ELSE IF exact /\ m._position + length <= len THEN Throw(w, "ShortRead")
        ELSE RetBuf([w EXCEPT !.mems[i]._position = @ + length],
                    BufferBytes(w, slice))

\* resize: Buffer.alloc(length), copy the old bytes in, swap the buffer.
\* An allocation no other stream views is unreachable after the swap, so
\* its slot in the heap is reused for the new allocation.
MemoryStream_resize(w, i, length) ==
    LET m == w.mems[i]
        old == m._buffer[1]
        bytes == BufferBytes(w, old)
        newBuf == [k \in 1..length |-> IF k <= Len(bytes) THEN bytes[k] ELSE 0]
        shared == \E j \in 1..Len(w.mems) :
                     /\ j # i
                     /\ w.mems[j]._buffer # Null
                     /\ w.mems[j]._buffer[1].store = old.store
        store == IF shared THEN Len(w.heap) + 1 ELSE old.store
        heap == IF shared THEN Append(w.heap, newBuf)
                ELSE [w.heap EXCEPT ![old.store] = newBuf]
    IN  IF ~m._isOpen THEN Throw(w, "NotOpen")
        ELSE IF ~MemoryStream_canWrite(m) THEN Throw(w, "Unsupported")
        ELSE IF m._fixedSize THEN RetBool(w, FALSE)
        ELSE RetBool([w EXCEPT !.heap = heap,
                               !.mems[i]._buffer =
                                   Some([store |-> store, off |-> 0, len |-> length])],
                     TRUE)

\* data.copy(target, targetStart): copies what fits, returns the count.
BufferCopy(w, data, b, targetStart) ==
    LET n == Max(0, Min(Len(data), b.len - targetStart))
    IN  [bytesWritten |-> n,
         heap |-> [w.heap EXCEPT ![b.store] = [k \in 1..Len(@) |->
                     IF k > b.off + targetStart /\ k <= b.off + targetStart + n
                     THEN data[k - b.off - targetStart] ELSE @[k]]]]

\* MemoryStream.write without the throw of a fixed-size stream: what fits is
\* copied.
MemoryStream_write_partial(w, i, data) ==
    LET m == w.mems[i]
        grow == m._position + Len(data) > MemoryStream_length(m)
        r == IF grow THEN MemoryStream_resize(w, i, m._position + Len(data))
             ELSE Ret(w)
        c == BufferCopy(r.w, data, r.w.mems[i]._buffer[1], m._position)
    IN  IF ~m._isOpen THEN Throw(w, "NotOpen")
        ELSE IF ~MemoryStream_canWrite(m) THEN Throw(w, "Unsupported")
        ELSE RetNum([r.w EXCEPT !.heap = c.heap,
                                !.mems[i]._position = @ + c.bytesWritten],
                    c.bytesWritten)

MemoryStream_write(w, i, data) ==
    LET m == w.mems[i]
        grow == m._position + Len(data) > MemoryStream_length(m)
        r == IF grow THEN MemoryStream_resize(w, i, m._position + Len(data))
             ELSE Ret(w)
        c == BufferCopy(r.w, data, r.w.mems[i]._buffer[1], m._position)
    IN  IF ~m._isOpen THEN Throw(w, "NotOpen")
        ELSE IF ~MemoryStream_canWrite(m) THEN Throw(w, "Unsupported")
        ELSE IF grow /\ m._fixedSize THEN Throw(w, "NoSpace")
        ELSE RetNum([r.w EXCEPT !.heap = c.heap,
                                !.mems[i]._position = @ + c.bytesWritten],
                    c.bytesWritten)

MemoryStream_close(w, i) ==
    Ret([w EXCEPT !.mems[i]._buffer = Null, !.mems[i]._isOpen = FALSE])

\* substream(from?, to?): a read-only MemoryStream over a slice of the buffer.
MemoryStream_substream(w, i, from, to) ==
    LET m == w.mems[i]
        buf == IF from # Null THEN BufferSlice(m._buffer[1], from[1], to)
               ELSE m._buffer[1]
    IN  IF ~m._isOpen THEN Throw(w, "NotOpen")
        ELSE [Ret([w EXCEPT !.mems = Append(@, MemoryStream_new(buf, TRUE, FALSE))])
                EXCEPT !.cnt = Len(w.mems) + 1]

\* ------------------------------------------------------------ NodeStream
NodeStream_length(n) == n._position + Len(n.readableBuffer)

NodeStream_canRead(n) == n.isReadable /\ n.readable

NodeStream_canWrite(n) == ~n.isReadable /\ n.writable

NodeStream_seek(w, position) == RetBool(w, FALSE)

\* readable.read(n): null (no buffer, cnt = -1) unless n bytes are buffered.
NodeStream_read(w, length) ==
    LET n == w.node
    IN  IF ~n._isOpen THEN Throw(w, "NotOpen")
        ELSE IF ~NodeStream_canRead(n) THEN Throw(w, "Unsupported")
        ELSE IF length = 0 \/ length > Len(n.readableBuffer)
             THEN RetNum(w, -1)
        ELSE RetBuf([w EXCEPT !.node.readableBuffer =
                                  SubSeq(@, length + 1, Len(@))],
                    SubSeq(n.readableBuffer, 1, length))

\* readFrom, write, resize, close, substream of NodeStream.
NodeStream_notImplemented(w) == Throw(w, "NotImplemented")

\* ------------------------------------------------------------ Stream (dispatch)
RECURSIVE length(_, _), canSeek(_, _), canRead(_, _), canWrite(_, _)
RECURSIVE read(_, _, _, _), write(_, _, _)

\* ------------------------------------------------------------ Substream
\* new Substream(source, start, end); the constructor subscribes to the
\* source's "close" (see StreamBase_close).
Substream_new(source, start, end, isOpen) ==
    [_source |-> source, _position |-> 0,
     _range |-> <<OrNull(start), OrNull(end)>>, _isOpen |-> isOpen]

Substream_position(u) ==
    IF u._range[1] # Null THEN u._position - u._range[1][1] ELSE u._position

Substream_length(w, u) ==
    LET start == OrElse(u._range[1], 0)
        end == OrElse(u._range[2], length(w, u._source))
    IN  end - start

Substream_isOpen(u) == u._isOpen

\* Substream.seek with the range's start left out of the cursor.
Substream_seek_noStart(w, j, position) ==
    LET u == w.subs[j]
    IN  IF ~canSeek(w, u._source) THEN RetBool(w, FALSE)
        ELSE RetBool([w EXCEPT !.subs[j]._position = position], TRUE)

Substream_seek(w, j, position) ==
    LET u == w.subs[j]
    IN  IF ~canSeek(w, u._source) THEN RetBool(w, FALSE)
        ELSE RetBool([w EXCEPT !.subs[j]._position =
                                   position + OrElse(u._range[1], 0)],
                     TRUE)

Substream_resize(w, j, len) ==
    LET u == w.subs[j]
        end == OrElse(u._range[1], 0) + len
    IN  IF end <= length(w, u._source)
        THEN RetBool([w EXCEPT !.subs[j]._range = <<u._range[1], Some(end)>>], TRUE)
        ELSE RetBool(w, FALSE)

\* Substream.close that also closes the other Substreams of its source.
Substream_close_siblings(w, j) ==
    Ret([w EXCEPT !.subs = [k \in 1..Len(w.subs) |->
            IF w.subs[k]._source = w.subs[j]._source
            THEN [w.subs[k] EXCEPT !._isOpen = FALSE]
            ELSE w.subs[k]]])

Substream_close(w, j) == Ret([w EXCEPT !.subs[j]._isOpen = FALSE])

\* ------------------------------------------------------------ Stream members
isOpen(w, id) ==
    CASE id[1] = "mem" -> w.mems[id[2]]._isOpen
      [] id[1] = "file" -> FileStream_isOpen(w.file)
      [] id[1] = "sub" -> Substream_isOpen(w.subs[id[2]])
      [] id[1] = "node" -> w.node._isOpen

position(w, id) ==
    CASE id[1] = "mem" -> w.mems[id[2]]._position
      [] id[1] = "file" -> FileStream_position(w.file)
      [] id[1] = "sub" -> Substream_position(w.subs[id[2]])
      [] id[1] = "node" -> w.node._position

length(w, id) ==
    CASE id[1] = "mem" -> MemoryStream_length(w.mems[id[2]])
      [] id[1] = "file" -> FileStream_length(w.file)
      [] id[1] = "sub" -> Substream_length(w, w.subs[id[2]])
      [] id[1] = "node" -> NodeStream_length(w.node)

canSeek(w, id) ==
    CASE id[1] = "mem" -> MemoryStream_canSeek(w.mems[id[2]])
      [] id[1] = "file" -> FileStream_canSeek(w.file)
      [] id[1] = "sub" -> canSeek(w, w.subs[id[2]]._source)
      [] id[1] = "node" -> FALSE

canRead(w, id) ==
    CASE id[1] = "mem" -> MemoryStream_canRead(w.mems[id[2]])
      [] id[1] = "file" -> FileStream_canRead(w.file)
      [] id[1] = "sub" -> canRead(w, w.subs[id[2]]._source)
      [] id[1] = "node" -> NodeStream_canRead(w.node)

canWrite(w, id) ==
    CASE id[1] = "mem" -> MemoryStream_canWrite(w.mems[id[2]])
      [] id[1] = "file" -> FileStream_canWrite(w.file)
      [] id[1] = "sub" -> canWrite(w, w.subs[id[2]]._source)
      [] id[1] = "node" -> NodeStream_canWrite(w.node)

seek(w, id, p) ==
    CASE id[1] = "mem" -> MemoryStream_seek(w, id[2], p)
      [] id[1] = "file" -> FileStream_seek(w, p)
      [] id[1] = "sub" -> Substream_seek(w, id[2], p)
      [] id[1] = "node" -> NodeStream_seek(w, p)

\* StreamBase.readFrom with the seek's result ignored.
StreamBase_readFrom_noCheck(w, id, p, len, exact) ==
    LET s == seek(w, id, p)
    IN  IF s.err # "none" THEN s
        ELSE read(s.w, id, len, exact)

\* StreamBase.readFrom, and MemoryStream's identical override.
StreamBase_readFrom(w, id, p, len, exact) ==
    LET s == seek(w, id, p)
    IN  IF s.err # "none" THEN s
        ELSE IF ~s.ok THEN Throw(s.w, "SeekFailed")
        ELSE read(s.w, id, len, exact)

readFrom(w, id, p, len, exact) ==
    IF id[1] = "node" THEN NodeStream_notImplemented(w)
    ELSE StreamBase_readFrom(w, id, p, len, exact)

StreamBase_writeAt(w, id, p, data) ==
    LET s == seek(w, id, p)
    IN  IF s.err # "none" THEN s
        ELSE IF ~s.ok THEN Throw(s.w, "SeekFailed")
        ELSE write(s.w, id, data)

writeAt(w, id, p, data) == StreamBase_writeAt(w, id, p, data)

Substream_read(w, j, len, exact) ==
    readFrom(w, w.subs[j]._source, w.subs[j]._position, len, exact)

Substream_write(w, j, data) ==
    writeAt(w, w.subs[j]._source, w.subs[j]._position, data)

read(w, id, len, exact) ==
    CASE id[1] = "mem" -> MemoryStream_read(w, id[2], len, exact)
      [] id[1] = "file" -> FileStream_read(w, len, exact)
      [] id[1] = "sub" -> Substream_read(w, id[2], len, exact)
      [] id[1] = "node" -> NodeStream_read(w, len)

write(w, id, data) ==
    CASE id[1] = "mem" -> MemoryStream_write(w, id[2], data)
      [] id[1] = "file" -> FileStream_write(w, data)
      [] id[1] = "sub" -> Substream_write(w, id[2], data)
      [] id[1] = "node" -> NodeStream_notImplemented(w)

resize(w, id, len) ==
    CASE id[1] = "mem" -> MemoryStream_resize(w, id[2], len)
      [] id[1] = "file" -> FileStream_resize(w, len)
      [] id[1] = "sub" -> Substream_resize(w, id[2], len)
      [] id[1] = "node" -> NodeStream_notImplemented(w)

close(w, id) ==
    CASE id[1] = "mem" -> MemoryStream_close(w, id[2])
      [] id[1] = "file" -> FileStream_close(w)
      [] id[1] = "sub" -> Substream_close(w, id[2])
      [] id[1] = "node" -> NodeStream_notImplemented(w)

\* StreamBase.substream: new Substream(this, from, to); returns its index.
StreamBase_substream(w, id, from, to) ==
    [Ret([w EXCEPT !.subs =
              Append(@, Substream_new(id, from, to, isOpen(w, id)))])
       EXCEPT !.cnt = Len(w.subs) + 1]

substream(w, id, from, to) ==
    CASE id[1] = "mem" -> MemoryStream_substream(w, id[2], from, to)
      [] id[1] \in {"file", "sub"} -> StreamBase_substream(w, id, from, to)
      [] id[1] = "node" -> NodeStream_notImplemented(w)

\* ------------------------------------------------------------ state
VARIABLES
    backend,    \* which backend class Init constructed
    file,       \* the FileStream and the disk file behind its handle
    subs,       \* the Substream objects, in order of construction
    mems,       \* the MemoryStream objects, in order of construction
    heap,       \* the allocations the MemoryStreams' Buffers view
    node,       \* the NodeStream and the node Readable it wraps
    madeBy,     \* for each MemoryStream, the stream whose substream() returned it
    last,       \* the latest call: operation, receiver, arguments, outcome
    nops,       \* calls made so far
    calls,      \* the read / write in flight on each Substream, step by step
    microtasks, \* the continuations waiting on a settled promise, in order
    duplex      \* the Duplex asNodeStream() returned, and its consumer

vars == <<backend, file, subs, mems, heap, node, madeBy, last, nops,
          calls, microtasks, duplex>>

World == [file |-> file, subs |-> subs, mems |-> mems, heap |-> heap, node |-> node]

\* fs flags the file backend is opened with (as the set of their characters).
FileFlags == {{"r"}, {"r", "+"}, {"w"}, {"a"}}

NoFile == [FileStream_open(<<>>, {}) EXCEPT !._file = "null"]

NoNode == [_position |-> 0, _isOpen |-> FALSE, isReadable |-> TRUE,
           readable |-> FALSE, writable |-> FALSE, readableBuffer |-> <<>>]

\* new NodeStream(readable): _position = 0, _isOpen = true.
NodeStream_new == [NoNode EXCEPT !._isOpen = TRUE, !.readable = TRUE]

\* No asNodeStream() adapter.
NoDuplex == [self |-> <<"none", 0>>, highWaterMark |-> 0, content |-> <<>>,
             buffer |-> <<>>, ended |-> FALSE, errored |-> FALSE,
             expected |-> 0, inOrder |-> TRUE]

\* The calls are awaited one by one: none in flight, no adapter.
Sequential == calls = <<>> /\ microtasks = <<>> /\ duplex = NoDuplex

NoCall == [op |-> "new", on |-> <<"none", 0>>, p |-> 0, len |-> 0, exact |-> FALSE,
           from |-> Null, to |-> Null, wdata |-> <<>>,
           err |-> "none", ok |-> FALSE, cnt |-> 0, data |-> <<>>]

Streams ==
    {MemId(i) : i \in 1..Len(mems)} \cup {SubId(j) : j \in 1..Len(subs)}
    \cup (IF backend = "file" THEN {FileId} ELSE {})
    \cup (IF backend = "node" THEN {NodeId} ELSE {})

\* The streams that substream(...) returned.
Derived ==
    {MemId(i) : i \in 2..Len(mems)} \cup {SubId(j) : j \in 1..Len(subs)}

Positions == -1..MaxLen

\* The length arguments of read: none, one byte, several bytes.
ReadLengths == {0, 1, 2}

\* (length, exact) of read, and of readFrom.
ReadArgs == {<<len, exact>> : len \in ReadLengths, exact \in BOOLEAN} \ {<<0, TRUE>>}

ReadFromArgs == {<<2, FALSE>>}

\* The buffer handed to writeAt.
WriteAtData == {<<8, 9>>}

\* The length arguments of resize: empty, shrink, keep, grow.
Sizes == {0, 1, Len(InitData), MaxLen}

\* substream() and substream(from, to): ranges inside the initial data, ranges
\* with a zero bound, and ranges that do not fit.
SubstreamArgs ==
    {<<Null, Null>>}
    \cup {<<Some(a[1]), Some(a[2])>> :
            a \in {<<1, 2>>, <<0, 0>>, <<2, 1>>, <<-1, 2>>, <<1, 5>>}}

InitMemory ==
    /\ backend = "memory"
    /\ heap = <<InitData>>
    /\ \E readonly \in BOOLEAN, fixedSize \in BOOLEAN :
          mems = <<MemoryStream_new([store |-> 1, off |-> 0, len |-> Len(InitData)],
                                    readonly, fixedSize)>>
    /\ file = NoFile
    /\ node = NoNode

InitFile ==
    /\ backend = "file"
    /\ \E flags \in FileFlags : file = FileStream_open(InitData, flags)
    /\ mems = <<>>
    /\ heap = <<>>
    /\ node = NoNode

InitNode ==
    /\ backend = "node"
    /\ node = NodeStream_new
    /\ file = NoFile
    /\ mems = <<>>
    /\ heap = <<>>

Init ==
    /\ InitMemory \/ InitFile \/ InitNode
    /\ subs = <<>>
    /\ madeBy = [i \in 1..Len(mems) |-> <<"none", 0>>]
    /\ last = NoCall
    /\ nops = 0
    /\ Sequential

\* No file or buffer longer than MaxLen.
Bounded(w) ==
    /\ Len(w.file.disk) <= MaxLen
    /\ \A k \in 1..Len(w.heap) : Len(w.heap[k]) <= MaxLen

\* The call returns (or throws): the world and the record of the call.
Call(r, call) ==
    /\ file' = r.w.file
    /\ subs' = r.w.subs
    /\ mems' = r.w.mems
    /\ heap' = r.w.heap
    /\ node' = r.w.node
    /\ madeBy' = IF Len(r.w.mems) > Len(mems) THEN Append(madeBy, call.on) ELSE madeBy
    /\ last' = [call EXCEPT !.err = r.err, !.ok = r.ok, !.cnt = r.cnt, !.data = r.data]
    /\ nops' = nops + 1
    /\ UNCHANGED <<backend, calls, microtasks, duplex>>

\* A call within the budget of calls of one run.
Commit(r, call) == nops < MaxOps /\ Bounded(r.w) /\ Call(r, call)

Seek(id, p) ==
    Commit(seek(World, id, p), [NoCall EXCEPT !.op = "seek", !.on = id, !.p = p])

Read(id, len, exact) ==
    Commit(read(World, id, len, exact),
           [NoCall EXCEPT !.op = "read", !.on = id, !.len = len, !.exact = exact])

ReadFrom(id, p, len, exact) ==
    Commit(readFrom(World, id, p, len, exact),
           [NoCall EXCEPT !.op = "readFrom", !.on = id, !.p = p, !.len = len,
                          !.exact = exact])

Write(id, data) ==
    Commit(write(World, id, data),
           [NoCall EXCEPT !.op = "write", !.on = id, !.wdata = data])

WriteAt(id, p, data) ==
    Commit(writeAt(World, id, p, data),
           [NoCall EXCEPT !.op = "writeAt", !.on = id, !.p = p, !.wdata = data])

Resize(id, len) ==
    Commit(resize(World, id, len),
           [NoCall EXCEPT !.op = "resize", !.on = id, !.len = len])

Close(id) ==
    Commit(close(World, id), [NoCall EXCEPT !.op = "close", !.on = id])

Substream(id, from, to) ==
    /\ Cardinality(Derived) < MaxSubs
    /\ Commit(substream(World, id, from, to),
              [NoCall EXCEPT !.op = "substream", !.on = id, !.from = from, !.to = to])

\* The wrapped node Readable buffers a chunk from its source.
NodePush ==
    /\ backend = "node"
    /\ node.readable
    /\ Len(node.readableBuffer) < MaxLen
    /\ node' = [node EXCEPT !.readableBuffer = Append(@, Len(@) + 1)]
    /\ UNCHANGED <<backend, file, subs, mems, heap, madeBy, last, nops,
                   calls, microtasks, duplex>>

\* The wrapped node stream emits "close": the listener clears _isOpen.
NodeClose ==
    /\ backend = "node"
    /\ node.readable
    /\ node' = [node EXCEPT !._isOpen = FALSE, !.readable = FALSE]
    /\ UNCHANGED <<backend, file, subs, mems, heap, madeBy, last, nops,
                   calls, microtasks, duplex>>

Next ==
    \/ \E id \in Streams, p \in Positions : Seek(id, p)
    \/ \E id \in Streams, a \in ReadArgs : Read(id, a[1], a[2])
    \/ \E id \in Streams, p \in Positions, a \in ReadFromArgs :
          ReadFrom(id, p, a[1], a[2])
    \/ \E id \in Streams, data \in WriteData : Write(id, data)
    \/ \E id \in Streams, p \in Positions, data \in WriteAtData : WriteAt(id, p, data)
    \/ \E id \in Streams, len \in Sizes : Resize(id, len)
    \/ \E id \in Streams : Close(id)
    \/ \E id \in Streams, a \in SubstreamArgs : Substream(id, a[1], a[2])
    \/ NodePush
    \/ NodeClose

Spec == Init /\ [][Next]_vars

\* ------------------------------------------------------------ nested scenario
\* The scenario of a backend of NestedLen bytes, substream(10, 50) of it and
\* substream(5, 20) of that, then seeks and reads on the innermost stream.
NestedLen == 100

\* Calls in one run of the scenario.
NestedOps == 4

NestedData == [i \in 1..NestedLen |-> i]

NestedOuterId == IF backend = "memory" THEN MemId(2) ELSE SubId(1)

NestedInnerId == IF backend = "memory" THEN MemId(3) ELSE SubId(2)

InitNested ==
    /\ \/ /\ backend = "memory"
          /\ heap = <<NestedData>>
          /\ mems = <<MemoryStream_new([store |-> 1, off |-> 0, len |-> NestedLen],
                                       FALSE, FALSE)>>
          /\ file = NoFile
       \/ /\ backend = "file"
          /\ file = FileStream_open(NestedData, {"r", "+"})
          /\ mems = <<>>
          /\ heap = <<>>
    /\ node = NoNode
    /\ subs = <<>>
    /\ madeBy = [i \in 1..Len(mems) |-> <<"none", 0>>]
    /\ last = NoCall
    /\ nops = 0
    /\ Sequential

NestedOuter ==
    /\ nops = 0
    /\ LET id == IF backend = "memory" THEN MemId(1) ELSE FileId
       IN  Call(substream(World, id, Some(10), Some(50)),
                [NoCall EXCEPT !.op = "substream", !.on = id,
                               !.from = Some(10), !.to = Some(50)])

NestedInner ==
    /\ nops = 1
    /\ Call(substream(World, NestedOuterId, Some(5), Some(20)),
            [NoCall EXCEPT !.op = "substream", !.on = NestedOuterId,
                           !.from = Some(5), !.to = Some(20)])

NestedSeek(q) ==
    /\ nops >= 2 /\ nops < NestedOps
    /\ Call(seek(World, NestedInnerId, q),
            [NoCall EXCEPT !.op = "seek", !.on = NestedInnerId, !.p = q])

NestedRead(n) ==
    /\ nops >= 2 /\ nops < NestedOps
    /\ Call(read(World, NestedInnerId, n, FALSE),
            [NoCall EXCEPT !.op = "read", !.on = NestedInnerId, !.len = n])

NestedReadFrom(q, n) ==
    /\ nops >= 2 /\ nops < NestedOps
    /\ Call(readFrom(World, NestedInnerId, q, n, FALSE),
            [NoCall EXCEPT !.op = "readFrom", !.on = NestedInnerId, !.p = q, !.len = n])

NextNested ==
    \/ NestedOuter
    \/ NestedInner
    \/ \E q \in -1..16 : NestedSeek(q)
    \/ \E n \in {1, 2} : NestedRead(n)
    \/ \E q \in -1..16, n \in {1, 2} : NestedReadFrom(q, n)

SpecNested == InitNested /\ [][NextNested]_vars

\* ------------------------------------------------------------ calls in flight
\* Two Substreams of one file stream, each with a cursor of its own, and on
\* each one read or write that is not awaited before the other starts.  A
\* call runs to its first await; the continuation behind an await of a settled
\* promise is a microtask, run in order; file I/O completes in any order.
AsyncData == [i \in 1..MaxLen |-> i]

AsyncRanges == {<<Null, Null>>, <<Some(1), Some(MaxLen - 1)>>}

AsyncSeeks == {0, 1}

AsyncOps ==
    {[op |-> "read", len |-> n, wdata |-> <<>>] : n \in {1, 2}}
    \cup {[op |-> "write", len |-> 0, wdata |-> d] : d \in WriteData}

Idle == [pc |-> "idle", op |-> "none", len |-> 0, wdata |-> <<>>,
         seekErr |-> "none", seekOk |-> FALSE, at |-> 0,
         err |-> "none", cnt |-> 0, data |-> <<>>]

\* The file stream, substream(...) twice and a seek on each.
AsyncWorld(a1, a2, q1, q2) ==
    LET w0 == [file |-> FileStream_open(AsyncData, {"r", "+"}), subs |-> <<>>,
               mems |-> <<>>, heap |-> <<>>, node |-> NoNode]
        w1 == StreamBase_substream(w0, FileId, a1[1], a1[2]).w
        w2 == StreamBase_substream(w1, FileId, a2[1], a2[2]).w
        w3 == Substream_seek(w2, 1, q1).w
    IN  Substream_seek(w3, 2, q2).w

InitAsync ==
    /\ backend = "file"
    /\ \E a1 \in AsyncRanges, a2 \in AsyncRanges, q1 \in AsyncSeeks, q2 \in AsyncSeeks :
          /\ file = AsyncWorld(a1, a2, q1, q2).file
          /\ subs = AsyncWorld(a1, a2, q1, q2).subs
    /\ mems = <<>>
    /\ heap = <<>>
    /\ node = NoNode
    /\ madeBy = <<>>
    /\ last = NoCall
    /\ nops = 0
    /\ calls = <<Idle, Idle>>
    /\ microtasks = <<>>
    /\ duplex = NoDuplex

\* Substream.read / Substream.write is called: source.readFrom / writeAt runs
\* the source's seek(this._position) and stops at its await.
AsyncCall(j, o) ==
    /\ calls[j].pc = "idle"
    /\ LET s == seek(World, subs[j]._source, subs[j]._position)
       IN  /\ file' = s.w.file
           /\ subs' = s.w.subs
           /\ calls' = [calls EXCEPT ![j] =
                  [Idle EXCEPT !.pc = "seek", !.op = o.op, !.len = o.len,
                               !.wdata = o.wdata,
                               !.seekErr = s.err, !.seekOk = s.ok]]
    /\ microtasks' = Append(microtasks, j)
    /\ UNCHANGED <<backend, mems, heap, node, madeBy, last, nops, duplex>>

\* The continuation of readFrom / writeAt: throw when the seek failed,
\* otherwise this.read / this.write, which runs to the await of the file I/O.
AsyncResume ==
    /\ microtasks # <<>>
    /\ LET j == Head(microtasks)
           c == calls[j]
           i == IF c.op = "read" THEN FileStream_read_issue(file, c.len, FALSE)
                ELSE FileStream_write_issue(file)
           e == IF c.seekErr # "none" THEN c.seekErr
                ELSE IF ~c.seekOk THEN "SeekFailed"
                ELSE i.err
       IN  calls' = [calls EXCEPT ![j] =
              IF e # "none" THEN [c EXCEPT !.pc = "done", !.err = e]
              ELSE [c EXCEPT !.pc = "io", !.at = i.at]]
    /\ microtasks' = Tail(microtasks)
    /\ UNCHANGED <<backend, file, subs, mems, heap, node, madeBy, last, nops, duplex>>

\* The file I/O of a call completes and the call returns.
AsyncComplete(j) ==
    /\ calls[j].pc = "io"
    /\ LET c == calls[j]
           r == IF c.op = "read" THEN FileStream_read_done(World, c.at, c.len, FALSE)
                ELSE FileStream_write_done(World, c.at, c.wdata)
       IN  /\ file' = r.w.file
           /\ calls' = [calls EXCEPT ![j] =
                  [c EXCEPT !.pc = "done", !.err = r.err, !.cnt = r.cnt,
                            !.data = r.data]]
    /\ UNCHANGED <<backend, subs, mems, heap, node, madeBy, last, nops,
                   microtasks, duplex>>

NextAsync ==
    \/ \E j \in 1..2, o \in AsyncOps : AsyncCall(j, o)
    \/ AsyncResume
    \/ \E j \in 1..2 : AsyncComplete(j)

SpecAsync == InitAsync /\ [][NextAsync]_vars

\* ------------------------------------------------------------ observations
\* The backend stream, the stream whose substream() returned a stream, and the
\* streams a stream's substream() returned.
Backends == Streams \ Derived

Parent(id) == IF id[1] = "sub" THEN subs[id[2]]._source ELSE madeBy[id[2]]

Children(id) == {c \in Derived : Parent(c) = id}

\* The streams below a stream in the tree substream(...) builds.
RECURSIVE IsDescendant(_, _)
IsDescendant(d, a) ==
    /\ d \in Derived
    /\ \/ Parent(d) = a
       \/ IsDescendant(Parent(d), a)

Descendants(id) == {d \in Derived : IsDescendant(d, id)}

\* A MemoryStream constructed with fixedSize.
IsFixed(w, id) == id[1] = "mem" /\ w.mems[id[2]]._fixedSize

\* The stream the latest call, a substream(...), returned.
Returned == IF last.on[1] = "mem" THEN MemId(last.cnt) ELSE SubId(last.cnt)

\* The bytes behind a stream, and where a stream's own offset q lies in them.
Medium(w, id) ==
    IF id[1] = "mem" THEN BufferBytes(w, w.mems[id[2]]._buffer[1]) ELSE w.file.disk

RECURSIVE Absolute(_, _, _)
Absolute(w, id, q) ==
    CASE id[1] = "mem" -> q
      [] id[1] = "file" -> w.file._range[1] + q
      [] id[1] = "sub" ->
            Absolute(w, w.subs[id[2]]._source, OrElse(w.subs[id[2]]._range[1], 0) + q)

ByteAt(w, id, q) == Medium(w, id)[Absolute(w, id, q) + 1]

\* This step is one call.
Step == nops' = nops + 1

DataOps == {"seek", "read", "readFrom", "write", "writeAt", "resize"}

SeekReturned(c, b) == c.op = "seek" /\ c.err = "none" /\ c.ok = b

\* ------------------------------------------------------------ asNodeStream
\* The Duplex asNodeStream() returns over a readable stream, and a consumer
\* of it.  Node calls the Duplex's read(size), size its highWaterMark, while
\* fewer bytes than that are buffered and the end was not pushed; it makes no
\* second call before the first one has pushed.
AdapterData == [i \in 1..MaxLen |-> i]

\* The stream the adapter is made over: the backend, or a substream of it.
AdapterTargets == {"backend", "all", "range"}

\* highWaterMark: below the length of the stream, dividing it or not, and
\* not below it.
AdapterMarks == {1, 2, MaxLen - 1, MaxLen}

\* The bytes of a stream, from its offset 0 to its length.
Content(w, id) == [q \in 1..length(w, id) |-> ByteAt(w, id, q - 1)]

\* The backend, and the stream the adapter is over.
AdapterWorld(kind, target) ==
    LET id == IF kind = "memory" THEN MemId(1) ELSE FileId
        w0 == [file |-> IF kind = "file" THEN FileStream_open(AdapterData, {"r"})
                        ELSE NoFile,
               subs |-> <<>>,
               mems |-> IF kind = "memory"
                        THEN <<MemoryStream_new([store |-> 1, off |-> 0,
                                                 len |-> MaxLen], FALSE, FALSE)>>
                        ELSE <<>>,
               heap |-> IF kind = "memory" THEN <<AdapterData>> ELSE <<>>,
               node |-> NoNode]
        r == IF target = "all" THEN substream(w0, id, Null, Null)
             ELSE substream(w0, id, Some(1), Some(MaxLen - 1))
    IN  IF target = "backend" THEN [w |-> w0, self |-> id]
        ELSE [w |-> r.w,
              self |-> IF kind = "memory" THEN MemId(r.cnt) ELSE SubId(r.cnt)]

InitAdapter ==
    \E kind \in {"memory", "file"}, target \in AdapterTargets, mark \in AdapterMarks :
        LET a == AdapterWorld(kind, target)
        IN  /\ backend = kind
            /\ file = a.w.file
            /\ subs = a.w.subs
            /\ mems = a.w.mems
            /\ heap = a.w.heap
            /\ node = a.w.node
            /\ madeBy = [i \in 1..Len(a.w.mems) |->
                           IF i = 1 THEN <<"none", 0>> ELSE MemId(1)]
            /\ last = NoCall
            /\ nops = 0
            /\ calls = <<>>
            /\ microtasks = <<>>
            /\ duplex = [NoDuplex EXCEPT !.self = a.self,
                                         !.highWaterMark = mark,
                                         !.content = Content(a.w, a.self)]

\* read(size) of the Duplex: self.read(Math.min(size, self.length)), then
\* push(data), and push(null) when self.position >= self.length; an error
\* of the read is emitted as "error".
DuplexRead ==
    /\ duplex.self # <<"none", 0>>
    /\ ~duplex.ended /\ ~duplex.errored
    /\ Len(duplex.buffer) < duplex.highWaterMark
    /\ LET self == duplex.self
           r == read(World, self,
                     Min(duplex.highWaterMark, length(World, self)), FALSE)
       IN  /\ file' = r.w.file
           /\ subs' = r.w.subs
           /\ mems' = r.w.mems
           /\ heap' = r.w.heap
           /\ node' = r.w.node
           /\ duplex' =
                IF r.err # "none" THEN [duplex EXCEPT !.errored = TRUE]
                ELSE [duplex EXCEPT
                        !.buffer = @ \o r.data,
                        !.ended = position(r.w, self) >= length(r.w, self)]
    /\ UNCHANGED <<backend, madeBy, last, nops, calls, microtasks>>

\* The consumer takes the next byte the Duplex has buffered; it is in order
\* when it is the stream's byte at the next offset not yet delivered.
DuplexConsume ==
    /\ duplex.buffer # <<>>
    /\ LET b == Head(duplex.buffer)
           good == /\ duplex.inOrder
                   /\ duplex.expected < Len(duplex.content)
                   /\ b = duplex.content[duplex.expected + 1]
       IN  duplex' = [duplex EXCEPT
                        !.buffer = Tail(@),
                        !.inOrder = good,
                        !.expected = IF good THEN @ + 1 ELSE @]
    /\ UNCHANGED <<backend, file, subs, mems, heap, node, madeBy, last, nops,
                   calls, microtasks>>

NextAdapter == DuplexRead \/ DuplexConsume

\* Node keeps calling read(size) while the buffer is below the mark, and the
\* consumer keeps reading.
SpecAdapter ==
    /\ InitAdapter
    /\ [][NextAdapter]_vars
    /\ WF_vars(DuplexRead)
    /\ WF_vars(DuplexConsume)

\* ------------------------------------------------------------ claims
\* C1: a close() of a backend stream (memory, file) leaves every substream
\* obtained from it with isOpen = FALSE, and a later seek, read, write or
\* resize on such a substream throws NotOpen.
CascadingClose ==
    [][ /\ (Step /\ last'.op = "close" /\ last'.on \in Backends \ {NodeId})
            => \A s \in Children(last'.on) : ~isOpen(World', s)
        /\ (/\ Step
            /\ last'.op \in {"seek", "read", "write", "resize"}
            /\ last'.on \in Derived
            /\ Parent(last'.on) \in Backends
            /\ ~isOpen(World, Parent(last'.on)))
            => last'.err = "NotOpen" ]_vars

\* C2: the call that follows a completed close() on the same stream, when it
\* is a seek, read, readFrom, write, writeAt or resize, throws NotOpen and
\* leaves the stored bytes as they were.
ClosedRejects ==
    [][ (/\ Step
         /\ last.op = "close" /\ last.err = "none"
         /\ last'.on = last.on
         /\ last'.op \in DataOps)
        => /\ last'.err = "NotOpen"
           /\ file'.disk = file.disk
           /\ heap' = heap ]_vars

\* A substream(from, to) call with both bounds given and the range inside
\* the receiver: 0 <= from <= to <= length.
FitsIn(c, w) ==
    /\ c.op = "substream" /\ c.err = "none"
    /\ c.from # Null /\ c.to # Null
    /\ 0 <= c.from[1] /\ c.from[1] <= c.to[1] /\ c.to[1] <= length(w, c.on)

\* C3: the stream substream(from, to) returns, from given, has position 0,
\* and a read(n) as the first call on it returns the bytes
\* source.readFrom(from, n) returns.
SubstreamStartsAtFrom ==
    [][ /\ (Step /\ FitsIn(last', World))
            => position(World', Returned') = 0
        /\ (Step /\ FitsIn(last, World) /\ last'.op = "read" /\ last'.on = Returned)
            => LET rf == readFrom(World, last.on, last.from[1], last'.len, last'.exact)
               IN  rf.err = "none" => last'.err = "none" /\ last'.data = rf.data ]_vars

\* C4: with a backend of NestedLen bytes, backend.substream(10, 50)
\* .substream(5, 20) has length 15, a read at its position q in [0, 15)
\* starts at the backend's byte 15 + q, and no read on it returns a backend
\* byte outside [15, 30).
NestedRange ==
    nops >= 2 =>
        /\ length(World, NestedInnerId) = 15
        /\ (last.on = NestedInnerId /\ last.op \in {"read", "readFrom"}
               /\ last.err = "none")
            => \A k \in 1..Len(last.data) :
                  last.data[k] \in {NestedData[o + 1] : o \in 15..29}
        /\ (last.on = NestedInnerId /\ last.op = "readFrom" /\ last.err = "none"
               /\ last.p \in 0..14)
            => Len(last.data) >= 1 /\ last.data[1] = NestedData[15 + last.p + 1]

\* C5: when seek(p) returns true the stream's position is p, and the read or
\* write that follows transfers the bytes at the stream's offset p onwards
\* (for a substream: the source's offset rangeStart + p); readFrom and writeAt,
\* a successful seek followed by the read or write, do the same.
SeekThenTransfer ==
    [][ /\ (Step /\ SeekReturned(last', TRUE))
            => position(World', last'.on) = last'.p
        /\ (/\ Step /\ SeekReturned(last, TRUE) /\ last'.on = last.on
            /\ last'.op = "read" /\ last'.err = "none")
            => \A k \in 1..last'.cnt :
                  last'.data[k] = ByteAt(World, last.on, last.p + k - 1)
        /\ (/\ Step /\ SeekReturned(last, TRUE) /\ last'.on = last.on
            /\ last'.op = "write" /\ last'.err = "none")
            => \A k \in 1..last'.cnt :
                  ByteAt(World', last.on, last.p + k - 1) = last'.wdata[k]
        /\ (Step /\ last'.op = "readFrom" /\ last'.err = "none")
            => \A k \in 1..last'.cnt :
                  last'.data[k] = ByteAt(World, last'.on, last'.p + k - 1)
        /\ (Step /\ last'.op = "writeAt" /\ last'.err = "none")
            => \A k \in 1..last'.cnt :
                  ByteAt(World', last'.on, last'.p + k - 1) = last'.wdata[k] ]_vars

\* A read at a positive offset of a Substream whose range starts after the
\* source's start has returned bytes.
SeekThenTransferWitness ==
    /\ last.op = "readFrom" /\ last.err = "none"
    /\ last.on[1] = "sub" /\ subs[last.on[2]]._range[1] # Null
    /\ last.p > 0 /\ last.cnt > 0

\* C6: on an open stream that can seek, seek(p) returns true exactly when
\* 0 <= p <= length.
SeekBounds ==
    (last.op = "seek" /\ last.err = "none"
        /\ isOpen(World, last.on) /\ canSeek(World, last.on))
    => (last.ok <=> (0 <= last.p /\ last.p <= length(World, last.on)))

\* C7: when seek(p) returns false (memory, file, node stream, substream) the
\* stream's position is what it was before the call.
SeekFalseKeepsPosition ==
    [][ (Step /\ SeekReturned(last', FALSE))
        => position(World', last'.on) = position(World, last'.on) ]_vars

\* A seek returned false on a stream whose cursor had been moved.
SeekFalseKeepsPositionWitness ==
    /\ SeekReturned(last, FALSE)
    /\ position(World, last.on) > 0

\* C8: read(n), not exact, at position p of an open memory or file stream or
\* Substream returns min(n, length - p) bytes and advances the position by the
\* number of bytes returned.
ReadCount ==
    [][ (/\ Step
         /\ last'.op = "read" /\ ~last'.exact /\ last'.err = "none"
         /\ last'.on # NodeId
         /\ isOpen(World, last'.on)
         /\ 0 <= position(World, last'.on)
         /\ position(World, last'.on) <= length(World, last'.on))
        => /\ Len(last'.data)
               = Min(last'.len, length(World, last'.on) - position(World, last'.on))
           /\ position(World', last'.on)
               = position(World, last'.on) + Len(last'.data) ]_vars

\* C9: read(n, exact) at position p of an open readable memory or file stream
\* throws ShortRead exactly when p + n > length, and returns n bytes otherwise.
ExactRead ==
    [][ (/\ Step
         /\ last'.op = "read" /\ last'.exact
         /\ last'.on[1] \in {"mem", "file"}
         /\ isOpen(World, last'.on) /\ canRead(World, last'.on))
        => LET short == position(World, last'.on) + last'.len
                          > length(World, last'.on)
           IN  /\ (last'.err = "ShortRead") <=> short
               /\ ~short => (last'.err = "none" /\ Len(last'.data) = last'.len) ]_vars

\* Every open stream's cursor is inside the stream.
CursorInside(w, ids) ==
    \A id \in ids :
        isOpen(w, id) => 0 <= position(w, id) /\ position(w, id) <= length(w, id)

\* C10: a seek, read, write, resize or substream call made when every open
\* stream has 0 <= position <= length leaves every open stream so.
CursorInvariant ==
    [][ (/\ Step
         /\ last'.op \in {"seek", "read", "write", "resize", "substream"}
         /\ CursorInside(World, Streams))
        => CursorInside(World', Streams') ]_vars

\* seek(p); write(data); seek(p); read(data.length): the result of the read.
\* A seek that returns false does not throw, so the calls after it still run.
RoundTripRead(w, id, p, data) ==
    LET s1 == seek(w, id, p)
        w1 == write(s1.w, id, data)
        s2 == seek(w1.w, id, p)
    IN  IF w1.err # "none" THEN w1 ELSE read(s2.w, id, Len(data), FALSE)

\* C11: on an open backend (memory, file) that can seek, write and read, for
\* every position p in 0..length and every data that a fixed-size stream has
\* room for at p, seek(p); write(data); seek(p); read(data.length) returns
\* data.
RoundTrip ==
    \A id \in Backends \ {NodeId} :
        (/\ isOpen(World, id) /\ canSeek(World, id)
         /\ canWrite(World, id) /\ canRead(World, id))
        => \A p \in 0..length(World, id), data \in WriteData :
              (IsFixed(World, id) => p + Len(data) <= length(World, id))
              => LET r == RoundTripRead(World, id, p, data)
                 IN  r.err = "none" /\ r.data = data

NothingChanged ==
    /\ file' = file /\ subs' = subs /\ mems' = mems /\ heap' = heap /\ node' = node

\* C13: a close() on a stream that is already closed, of any kind (memory,
\* file, Substream, node stream), does not throw, leaves isOpen false and
\* changes nothing else.
CloseIdempotent ==
    [][ (Step /\ last'.op = "close" /\ ~isOpen(World, last'.on))
        => /\ last'.err = "none"
           /\ ~isOpen(World', last'.on)
           /\ NothingChanged ]_vars

\* The world apart from the object of the stream id.
Without(w, id) ==
    IF id[1] = "sub" THEN [w EXCEPT !.subs[id[2]] = Null]
    ELSE [w EXCEPT !.mems[id[2]] = Null]

\* C14: a close() on a stream that substream(...) returned changes nothing but
\* that stream: every other object and every stored byte is as it was, so an
\* open source keeps its position, length and data and stays open, and every
\* sibling keeps its open state.
SubstreamCloseIsLocal ==
    [][ (Step /\ last'.op = "close" /\ last'.on \in Derived)
        => /\ last'.err = "none"
           /\ ~isOpen(World', last'.on)
           /\ Without(World', last'.on) = Without(World, last'.on)
           /\ LET src == Parent(last'.on)
              IN  isOpen(World, src)
                  => /\ isOpen(World', src)
                     /\ position(World', src) = position(World, src)
                     /\ length(World', src) = length(World, src)
                     /\ Medium(World', src) = Medium(World, src)
           /\ \A s \in Children(Parent(last'.on)) \ {last'.on} :
                 isOpen(World', s) = isOpen(World, s) ]_vars

\* An open substream was closed while its source and a sibling were open.
SubstreamCloseIsLocalWitness ==
    /\ last.op = "close" /\ last.on \in Derived /\ last.err = "none"
    /\ isOpen(World, Parent(last.on))
    /\ \E s \in Children(Parent(last.on)) \ {last.on} : isOpen(World, s)

\* C15: a close() of a backend stream (memory, file) leaves the streams below
\* its direct substreams, the substreams of substreams, with isOpen = FALSE.
TransitiveClose ==
    [][ (Step /\ last'.op = "close" /\ last'.on \in Backends \ {NodeId})
        => \A d \in Descendants(last'.on) \ Children(last'.on) :
              ~isOpen(World', d) ]_vars

\* C16: substream(from, to) on an open memory or file stream or Substream
\* with from < 0, to < from or to > length throws InvalidRange and
\* constructs no stream.
InvalidRangeRejected ==
    [][ (/\ Step
         /\ last'.op = "substream" /\ last'.on # NodeId
         /\ last'.from # Null /\ last'.to # Null
         /\ isOpen(World, last'.on)
         /\ \/ last'.from[1] < 0
            \/ last'.to[1] < last'.from[1]
            \/ last'.to[1] > length(World, last'.on))
        => /\ last'.err = "InvalidRange"
           /\ subs' = subs /\ mems' = mems ]_vars

\* C17: a read or write on a stream that substream(...) returned leaves the
\* position of its source as it was.
SourceCursorKept ==
    [][ (/\ Step
         /\ last'.op \in {"read", "write"}
         /\ last'.on \in Derived
         /\ isOpen(World, Parent(last'.on)))
        => position(World', Parent(last'.on)) = position(World, Parent(last'.on)) ]_vars

\* C18: resize(L) on a Substream returns true exactly when
\* rangeStart + L <= source.length; then the end bound is rangeStart + L and
\* the length is L, otherwise the range is unchanged; the source's length and
\* the stored bytes are unchanged either way.
SubstreamResize ==
    [][ (/\ Step
         /\ last'.op = "resize" /\ last'.on[1] = "sub"
         /\ isOpen(World, subs[last'.on[2]]._source))
        => LET j == last'.on[2]
               src == subs[j]._source
               start == OrElse(subs[j]._range[1], 0)
               fits == start + last'.len <= length(World, src)
           IN  /\ last'.err = "none"
               /\ last'.ok = fits
               /\ fits => /\ subs'[j]._range[2] = Some(start + last'.len)
                          /\ length(World', last'.on) = last'.len
               /\ ~fits => subs'[j]._range = subs[j]._range
               /\ length(World', src) = length(World, src)
               /\ file'.disk = file.disk ]_vars

\* C19: when resize(L) on an open writable memory stream that is not
\* fixed-size, or file stream, returns true, the stream's length is L.
ResizeSetsLength ==
    [][ (/\ Step
         /\ last'.op = "resize" /\ last'.err = "none" /\ last'.ok
         /\ last'.on \in Backends \ {NodeId}
         /\ ~IsFixed(World, last'.on))
        => length(World', last'.on) = last'.len ]_vars

IsReadOnly(w, id) == id[1] = "mem" /\ w.mems[id[2]]._isReadOnly

\* C21: an open memory stream constructed with readonly: true has canWrite
\* false and canRead and canSeek true, and every write or resize on it throws
\* and leaves the buffer, the length and the position as they were.
ReadOnlyMemory ==
    [][ Step
        => /\ \A i \in 1..Len(mems) :
                 (mems[i]._isReadOnly /\ mems[i]._isOpen)
                 => /\ ~canWrite(World, MemId(i))
                    /\ canRead(World, MemId(i))
                    /\ canSeek(World, MemId(i))
           /\ (/\ last'.op \in {"write", "resize"}
               /\ IsReadOnly(World, last'.on))
              => /\ last'.err # "none"
                 /\ NothingChanged ]_vars

\* A write was refused by an open read-only memory stream.
ReadOnlyMemoryWitness ==
    /\ last.op = "write" /\ last.err = "Unsupported"
    /\ IsReadOnly(World, last.on) /\ isOpen(World, last.on)

\* C22: readFrom(p, n) and writeAt(p, data) throw when seek(p) returns false,
\* and then nothing is read or written and no position or byte changes; when
\* seek(p) returns true their outcome is that of seek(p) followed by read(n) or
\* write(data).
SeekFirst ==
    [][ (Step /\ last'.op \in {"readFrom", "writeAt"})
        => LET id == last'.on
               s == seek(World, id, last'.p)
               r == IF last'.op = "readFrom"
                    THEN read(s.w, id, last'.len, last'.exact)
                    ELSE write(s.w, id, last'.wdata)
           IN  /\ (s.err = "none" /\ ~s.ok)
                  => /\ last'.err # "none"
                     /\ last'.data = <<>>
                     /\ NothingChanged
               /\ (s.err = "none" /\ s.ok)
                  => /\ last'.err = r.err
                     /\ last'.data = r.data
                     /\ last'.cnt = r.cnt
                     /\ World' = r.w ]_vars

\* A readFrom threw because its seek returned false.
SeekFirstWitness ==
    /\ last.op = "readFrom" /\ last.err = "SeekFailed"
    /\ last.on # NodeId

\* C23: every stream substream(...) returned has canWrite false, and a write
\* on it leaves the bytes of its source (memory, file, Substream) as they
\* were.
ReadOnlySubstreams ==
    [][ Step
        => /\ \A d \in Derived' : ~canWrite(World', d)
           /\ (last'.op = "write" /\ last'.on \in Derived)
              => file'.disk = file.disk /\ heap' = heap ]_vars

\* Where offset 0 of a stream substream(...) returned lies in its source: the
\* range's start of a Substream, the slice's start of a memory substream.
StartIn(w, d) ==
    IF d[1] = "sub" THEN OrElse(w.subs[d[2]]._range[1], 0)
    ELSE w.mems[d[2]]._buffer[1].off - w.mems[Parent(d)[2]]._buffer[1].off

\* C24: a readFrom on a stream substream(...) returned, at its offset q,
\* returns the bytes its open source holds now at the corresponding offsets
\* (start + q onwards), whatever calls, writes that grow it included, the
\* source has had since.
SharedStorage ==
    [][ (/\ Step
         /\ last'.op = "readFrom" /\ last'.err = "none"
         /\ last'.on \in Derived
         /\ isOpen(World, last'.on)
         /\ isOpen(World', Parent(last'.on)))
        => LET src == Parent(last'.on)
               a == StartIn(World, last'.on) + last'.p
           IN  \A k \in 1..last'.cnt :
                  Absolute(World', src, a + k - 1) < Len(Medium(World', src))
                  => last'.data[k] = ByteAt(World', src, a + k - 1) ]_vars

\* C25: a seek, write or writeAt on a Substream constructed with an upper
\* bound to (from <= to) changes no byte of the source at the source's offset
\* to or beyond, and the Substream's length stays at most to - from.
UpperBoundKept ==
    [][ (/\ Step
         /\ last'.op \in {"seek", "write", "writeAt"}
         /\ last'.on[1] = "sub"
         /\ subs[last'.on[2]]._range[2] # Null
         /\ 0 <= OrElse(subs[last'.on[2]]._range[1], 0)
         /\ OrElse(subs[last'.on[2]]._range[1], 0) <= subs[last'.on[2]]._range[2][1])
        => LET u == subs[last'.on[2]]
               to == Absolute(World, u._source, u._range[2][1])
           IN  /\ \A k \in 1..Len(file'.disk) :
                     k > to => (k <= Len(file.disk) /\ file'.disk[k] = file.disk[k])
               /\ length(World', last'.on)
                    <= u._range[2][1] - OrElse(u._range[1], 0) ]_vars

\* The capability an operation needs.
Can(w, id, op) ==
    CASE op = "seek" -> canSeek(w, id)
      [] op = "read" -> canRead(w, id)
      [] op \in {"write", "resize"} -> canWrite(w, id)

\* C26: a seek, read, write or resize on a closed stream of any kind throws
\* NotOpen, whatever its capabilities and arguments, and on an open stream
\* without the capability the operation needs (canSeek, canRead, canWrite) it
\* throws Unsupported.
CheckOrder ==
    [][ (Step /\ last'.op \in {"seek", "read", "write", "resize"})
        => /\ ~isOpen(World, last'.on) => last'.err = "NotOpen"
           /\ (isOpen(World, last'.on) /\ ~Can(World, last'.on, last'.op))
              => last'.err = "Unsupported" ]_vars

\* C28: a successful read(n) on a stream substream(...) returned, with the n
\* bytes inside the stream, advances its position by the number of bytes
\* returned, so that of two consecutive reads the second starts where the
\* first ended and returns other bytes.
ConsecutiveReads ==
    [][ (/\ Step
         /\ last'.op = "read" /\ last'.err = "none"
         /\ last'.on \in Derived
         /\ isOpen(World, last'.on)
         /\ 0 <= position(World, last'.on)
         /\ position(World, last'.on) + last'.len <= length(World, last'.on))
        => /\ position(World', last'.on)
                = position(World, last'.on) + last'.cnt
           /\ (/\ last.op = "read" /\ last.err = "none" /\ last.on = last'.on
               /\ last.cnt > 0 /\ last'.cnt > 0)
              => last'.data # last.data ]_vars

\* C29: a stream of any kind that is not open has canRead, canWrite and
\* canSeek false.
ClosedHasNoCapability ==
    \A id \in Streams :
        ~isOpen(World, id)
        => ~canRead(World, id) /\ ~canWrite(World, id) /\ ~canSeek(World, id)

\* C27: with a read or write in flight on each of two Substreams of one
\* source, under every interleaving a read that returns has read the source's
\* bytes at its own Substream's absolute position, and a write that returns
\* has written its data there.
OwnPosition ==
    [][ \A j \in 1..2 :
          (/\ calls[j].pc = "io" /\ calls'[j].pc = "done"
           /\ calls'[j].err = "none")
          => LET c == calls'[j]
                 at == subs[j]._position
             IN  /\ c.op = "read"
                    => \A k \in 1..c.cnt : c.data[k] = file.disk[at + k]
                 /\ c.op = "write"
                    => \A k \in 1..c.cnt : file'.disk[at + k] = c.wdata[k] ]_vars

\* C30: the Duplex asNodeStream() returned over a readable memory or file
\* stream or substream eventually has pushed the end marker, with every byte
\* of the stream delivered to the consumer once and in order.
AdapterEnds ==
    <>(/\ duplex.ended
       /\ duplex.buffer = <<>>
       /\ duplex.inOrder
       /\ duplex.expected = Len(duplex.content))

====
